---- MODULE Spec2Model ----
(***************************************************************************)
(* Model of the counter service of simple-counter-app                      *)
(* (src/app/counter_service.py): the counter table, the clock the service  *)
(* reads with datetime.utcnow(), and one action per service operation.     *)
(* Every operation runs in its own session (get_session), so an action is  *)
(* one whole service call: load, mutate, commit, refresh, return. Two      *)
(* further specifications take the calls apart into the steps that         *)
(* interleave when sessions run side by side (SpecRace), and put the       *)
(* counter page of src/app/counter_ui.py in front of the service (SpecUI). *)
(***************************************************************************)
EXTENDS Integers, FiniteSets, Sequences, TLC

(***************************************************************************)
(* Bounds of the model.                                                    *)
(***************************************************************************)
\* rows the table may hold
MaxCounters == 2
\* last reading of the clock
MaxTime == 1
\* |value| of a counter stays within this range
MaxValue == 1
\* increments (and decrements) recorded per counter in the history
MaxOps == 2
\* sessions that run a service call side by side
MaxSessions == 3

Names == {"default", "a"}
Values == (0 - MaxValue)..MaxValue
\* values a caller passes to create_counter and update_counter
InputValues == {-1, 0, 1}
\* ids a caller may pass: every id the table can hold and one it never holds
Ids == 1..(MaxCounters + 1)
Sessions == 1..MaxSessions

\* Python's None: the absent record
None == [none |-> TRUE]
\* CounterUpdate(value=None) is <<>>, CounterUpdate(value=x) is <<x>>
Unset == <<>>
UpdateData == {Unset} \cup {<<x>> : x \in InputValues}

VARIABLES
    table,      \* the counter table: a set of rows
    next_id,    \* the id the store gives the next inserted row
    now,        \* the reading datetime.utcnow() returns
    hist,       \* the history of the calls, when it is recorded (hist.on):
                \* per id, the value the counter was created with and the
                \* increments and decrements since, until an update or a reset
                \* writes the counter
    sess,       \* per session: where its service call stands, the object it
                \* loaded and what it returned
    overlap,    \* ids on which two increment_counter calls have overlapped
    ui          \* the page of one browser tab

vars == <<table, next_id, now, hist, sess, overlap, ui>>

(***************************************************************************)
(* The session: what the service asks of the store.                        *)
(***************************************************************************)
RowIds(s) == {r.id : r \in s}

\* session.get(Counter, counter_id): the row with that primary key, or None
session_get(s, id) ==
    IF \E r \in s : r.id = id THEN CHOOSE r \in s : r.id = id ELSE None

\* select(Counter).where(Counter.name == name): the matching rows; first()
\* returns one of them (no ORDER BY), or None when there is none
select_by_name(s, name) == {r \in s : r.name = name}

\* Counter(name=..., value=...), session.add, session.commit on a new object:
\* the store assigns the id and both timestamps default to the clock
new_counter(nid, name, value, t) ==
    [id |-> nid, name |-> name, value |-> value,
     created_at |-> t, updated_at |-> t]

\* session.add(counter); session.commit() on a loaded object: UPDATE of the
\* row with the object's primary key
session_commit_all(s, obj) == {[obj EXCEPT !.id = r.id] : r \in s}

session_commit(s, obj) == {IF r.id = obj.id THEN obj ELSE r : r \in s}

\* session.refresh(counter): the object re-read from its row
session_refresh(s, obj) == session_get(s, obj.id)

(***************************************************************************)
(* The service operations. Each takes the table s (and, where it inserts,  *)
(* the store's next id; where it writes, the clock reading t) and gives    *)
(* the table after the call (store) and the value the caller gets (ret).   *)
(***************************************************************************)
get_or_create_default_counter_always_insert(s, nid, t) ==
    LET counter == new_counter(nid, "default", 0, t)
        s2 == s \cup {counter}
    IN {[store |-> s2, ret |-> session_refresh(s2, counter), next_id |-> nid + 1]}

get_or_create_default_counter_reset(s, nid, t) ==
    LET found == select_by_name(s, "default")
    IN IF found = {}
       THEN LET counter == new_counter(nid, "default", 0, t)
                s2 == s \cup {counter}
            IN {[store |-> s2, ret |-> session_refresh(s2, counter),
                 next_id |-> nid + 1]}
       ELSE {LET obj == [counter EXCEPT !.value = 0, !.updated_at = t]
                 s2 == session_commit(s, obj)
             IN [store |-> s2, ret |-> session_refresh(s2, obj), next_id |-> nid]
               : counter \in found}

\* the possible outcomes: one per row first() may return
get_or_create_default_counter(s, nid, t) ==
    LET found == select_by_name(s, "default")
    IN IF found = {}
       THEN LET counter == new_counter(nid, "default", 0, t)
                s2 == s \cup {counter}
            IN {[store |-> s2, ret |-> session_refresh(s2, counter),
                 next_id |-> nid + 1]}
       ELSE {[store |-> s, ret |-> counter, next_id |-> nid] : counter \in found}

get_counter(s, id) == [store |-> s, ret |-> session_get(s, id)]

create_counter_no_advance(s, nid, name, value, t) ==
    LET counter == new_counter(nid, name, value, t)
        s2 == s \cup {counter}
    IN [store |-> s2, ret |-> session_refresh(s2, counter), next_id |-> nid]

create_counter(s, nid, name, value, t) ==
    LET counter == new_counter(nid, name, value, t)
        s2 == s \cup {counter}
    IN [store |-> s2, ret |-> session_refresh(s2, counter), next_id |-> nid + 1]

increment_counter_upsert(s, id, t) ==
    LET counter == session_get(s, id)
    IN IF counter = None
       THEN [store |-> s \cup {new_counter(id, "a", 1, t)}, ret |-> None]
       ELSE LET obj == [counter EXCEPT !.value = @ + 1, !.updated_at = t]
                s2 == session_commit(s, obj)
            IN [store |-> s2, ret |-> session_refresh(s2, obj)]

increment_counter_stale(s, id, t) ==
    LET counter == session_get(s, id)
    IN IF counter = None
       THEN [store |-> s, ret |-> None]
       ELSE LET obj == [counter EXCEPT !.value = @ + 1]
                s2 == session_commit(s, obj)
            IN [store |-> s2, ret |-> session_refresh(s2, obj)]

increment_counter_no_commit(s, id, t) ==
    LET counter == session_get(s, id)
    IN IF counter = None
       THEN [store |-> s, ret |-> None]
       ELSE [store |-> s,
             ret |-> [counter EXCEPT !.value = @ + 1, !.updated_at = t]]

increment_counter_recreate(s, id, t) ==
    LET counter == session_get(s, id)
    IN IF counter = None
       THEN [store |-> s, ret |-> None]
       ELSE LET obj == [counter EXCEPT !.value = @ + 1, !.created_at = t]
                s2 == session_commit(s, obj)
            IN [store |-> s2, ret |-> session_refresh(s2, obj)]

increment_counter(s, id, t) ==
    LET counter == session_get(s, id)
    IN IF counter = None
       THEN [store |-> s, ret |-> None]
       ELSE LET obj == [counter EXCEPT !.value = @ + 1, !.updated_at = t]
                s2 == session_commit(s, obj)
            IN [store |-> s2, ret |-> session_refresh(s2, obj)]

decrement_counter_floor(s, id, t) ==
    LET counter == session_get(s, id)
    IN IF counter = None
       THEN [store |-> s, ret |-> None]
       ELSE LET obj == [counter EXCEPT
                            !.value = IF @ > 0 THEN @ - 1 ELSE 0,
                            !.updated_at = t]
                s2 == session_commit(s, obj)
            IN [store |-> s2, ret |-> session_refresh(s2, obj)]

decrement_counter(s, id, t) ==
    LET counter == session_get(s, id)
    IN IF counter = None
       THEN [store |-> s, ret |-> None]
       ELSE LET obj == [counter EXCEPT !.value = @ - 1, !.updated_at = t]
                s2 == session_commit(s, obj)
            IN [store |-> s2, ret |-> session_refresh(s2, obj)]

update_counter_abs(s, id, data, t) ==
    LET counter == session_get(s, id)
    IN IF counter = None
       THEN [store |-> s, ret |-> None]
       ELSE IF data # Unset
            THEN LET obj == [counter EXCEPT
                                 !.value = IF data[1] < 0 THEN 0 - data[1]
                                           ELSE data[1],
                                 !.updated_at = t]
                     s2 == session_commit(s, obj)
                 IN [store |-> s2, ret |-> session_refresh(s2, obj)]
            ELSE [store |-> s, ret |-> counter]

update_counter_touch(s, id, data, t) ==
    LET counter == session_get(s, id)
    IN IF counter = None
       THEN [store |-> s, ret |-> None]
       ELSE LET obj == [counter EXCEPT
                            !.value = IF data # Unset THEN data[1] ELSE @,
                            !.updated_at = t]
                s2 == session_commit(s, obj)
            IN [store |-> s2, ret |-> session_refresh(s2, obj)]

update_counter(s, id, data, t) ==
    LET counter == session_get(s, id)
    IN IF counter = None
       THEN [store |-> s, ret |-> None]
       ELSE IF data # Unset
            THEN LET obj == [counter EXCEPT !.value = data[1], !.updated_at = t]
                     s2 == session_commit(s, obj)
                 IN [store |-> s2, ret |-> session_refresh(s2, obj)]
            ELSE [store |-> s, ret |-> counter]

reset_counter_unset(s, id, t) == update_counter(s, id, Unset, t)

reset_counter_drop(s, id, t) ==
    [store |-> {r \in s : r.id # id}, ret |-> None]

reset_counter(s, id, t) == update_counter(s, id, <<0>>, t)

(***************************************************************************)
(* The two steps of a call when sessions run side by side: what it reads   *)
(* from the store, and what it commits later from the object it holds. No  *)
(* step locks a row and no commit checks a version.                        *)
(***************************************************************************)
\* counter = session.get(Counter, counter_id)
increment_counter_load(s, id) == session_get(s, id)

increment_counter_write_atomic(s, counter, t) ==
    LET obj == [counter EXCEPT !.value = session_get(s, counter.id).value + 1,
                              !.updated_at = t]
        s2 == session_commit(s, obj)
    IN [store |-> s2, ret |-> session_refresh(s2, obj)]

increment_counter_write_versioned(s, counter, t) ==
    IF session_get(s, counter.id) # counter
    THEN [store |-> s, ret |-> None]
    ELSE LET obj == [counter EXCEPT !.value = @ + 1, !.updated_at = t]
             s2 == session_commit(s, obj)
         IN [store |-> s2, ret |-> session_refresh(s2, obj)]

\* counter.value += 1 on the loaded object, then add, commit, refresh
increment_counter_write(s, counter, t) ==
    LET obj == [counter EXCEPT !.value = @ + 1, !.updated_at = t]
        s2 == session_commit(s, obj)
    IN [store |-> s2, ret |-> session_refresh(s2, obj)]

\* the rows first() chooses from
get_or_create_default_counter_select(s) == select_by_name(s, "default")

get_or_create_default_counter_insert_if_absent(s, nid, t) ==
    IF select_by_name(s, "default") # {}
    THEN [store |-> s, ret |-> CHOOSE r \in select_by_name(s, "default") : TRUE,
          next_id |-> nid]
    ELSE LET counter == new_counter(nid, "default", 0, t)
             s2 == s \cup {counter}
         IN [store |-> s2, ret |-> session_refresh(s2, counter), next_id |-> nid + 1]

\* the branch taken when first() returned None
get_or_create_default_counter_insert(s, nid, t) ==
    LET counter == new_counter(nid, "default", 0, t)
        s2 == s \cup {counter}
    IN [store |-> s2, ret |-> session_refresh(s2, counter), next_id |-> nid + 1]

(***************************************************************************)
(* The counter page (src/app/counter_ui.py). app.storage.tab is <<>> when  *)
(* it holds no "counter_id" and <<id>> when it holds one; what the         *)
(* refreshable counter_display renders is a view and the text of the       *)
(* counter-value label; a handler gives the table after the click, what is *)
(* rendered after it, the notifications it showed and whether it called    *)
(* counter_display.refresh().                                              *)
(***************************************************************************)
counter_display(s, tab) ==
    IF tab = <<>>
    THEN [view |-> "No counter ID found", text |-> ""]
    ELSE LET current_counter == get_counter(s, tab[1]).ret
         IN IF current_counter = None
            THEN [view |-> "Counter not found", text |-> ""]
            ELSE [view |-> "counter", text |-> ToString(current_counter.value)]

\* what a click does with the result of its service call
handle_result_always_positive(tab, shown, out, done, kind, failed) ==
    [store |-> out.store, display |-> counter_display(out.store, tab),
     notify |-> {[text |-> done, type |-> kind]}, refreshed |-> TRUE]

handle_result(tab, shown, out, done, kind, failed) ==
    IF out.ret # None
    THEN [store |-> out.store, display |-> counter_display(out.store, tab),
          notify |-> {[text |-> done, type |-> kind]}, refreshed |-> TRUE]
    ELSE [store |-> out.store, display |-> shown,
          notify |-> {[text |-> failed, type |-> "negative"]},
          refreshed |-> FALSE]

\* a click with nothing in tab storage does nothing
handle_nothing(s, shown) ==
    [store |-> s, display |-> shown, notify |-> {}, refreshed |-> FALSE]

handle_increment(s, tab, shown, t) ==
    IF tab # <<>>
    THEN handle_result(tab, shown, increment_counter(s, tab[1], t),
                       "Counter incremented!", "positive",
                       "Failed to increment counter")
    ELSE handle_nothing(s, shown)

handle_decrement(s, tab, shown, t) ==
    IF tab # <<>>
    THEN handle_result(tab, shown, decrement_counter(s, tab[1], t),
                       "Counter decremented!", "positive",
                       "Failed to decrement counter")
    ELSE handle_nothing(s, shown)

handle_reset(s, tab, shown, t) ==
    IF tab # <<>>
    THEN handle_result(tab, shown, reset_counter(s, tab[1], t),
                       "Counter reset to 0!", "info", "Failed to reset counter")
    ELSE handle_nothing(s, shown)

(***************************************************************************)
(* The history of a counter, kept beside the table for the claims about    *)
(* sequences of calls.                                                     *)
(***************************************************************************)
Untracked == [untracked |-> TRUE]
Fresh(v) == [init |-> v, incs |-> 0, decs |-> 0]
Tracked(id) == hist.on /\ id \in DOMAIN hist.of /\ hist.of[id] # Untracked
\* the history after the calls that touch it
Created(id, v) ==
    IF hist.on /\ id \notin DOMAIN hist.of
    THEN [hist EXCEPT !.of = @ @@ (id :> Fresh(v))] ELSE hist
Incremented(id) ==
    IF Tracked(id) THEN [hist EXCEPT !.of[id].incs = @ + 1] ELSE hist
Decremented(id) ==
    IF Tracked(id) THEN [hist EXCEPT !.of[id].decs = @ + 1] ELSE hist
Written(id) ==
    IF Tracked(id) THEN [hist EXCEPT !.of[id] = Untracked] ELSE hist

\* a session that has made no call yet
Idle == [pc |-> "idle", obj |-> None, ret |-> None]
\* a tab that has opened no page yet: nothing in app.storage.tab, nothing
\* rendered, no notification
NoPage == [tab |-> <<>>, display |-> [view |-> "", text |-> ""], notify |-> {}]

(***************************************************************************)
(* The state after construction: an empty table (create_tables), the       *)
(* store's sequence at 1, the clock at its first reading.                  *)
(***************************************************************************)
Init ==
    /\ table = {}
    /\ next_id = 1
    /\ now = 0
    /\ hist = [on |-> FALSE, of |-> <<>>]
    /\ sess = [p \in Sessions |-> Idle]
    /\ overlap = {}
    /\ ui = NoPage

\* time passes between two service calls
Tick ==
    /\ now < MaxTime
    /\ now' = now + 1
    /\ UNCHANGED <<table, next_id, hist, sess, overlap, ui>>

GetOrCreateDefaultCounter ==
    /\ select_by_name(table, "default") # {} \/ Cardinality(table) < MaxCounters
    /\ \E out \in get_or_create_default_counter(table, next_id, now) :
          /\ table' = out.store
          /\ next_id' = out.next_id
          /\ hist' = Created(out.ret.id, 0)
    /\ UNCHANGED <<now, sess, overlap, ui>>

GetCounter(id) ==
    /\ table' = get_counter(table, id).store
    /\ UNCHANGED <<next_id, now, hist, sess, overlap, ui>>

CreateCounter(name, value) ==
    /\ Cardinality(table) < MaxCounters
    /\ LET out == create_counter(table, next_id, name, value, now)
       IN /\ table' = out.store
          /\ next_id' = out.next_id
          /\ hist' = Created(out.ret.id, value)
    /\ UNCHANGED <<now, sess, overlap, ui>>

IncrementCounter(id) ==
    /\ \A r \in table : r.id = id => r.value < MaxValue
    /\ Tracked(id) => hist.of[id].incs < MaxOps
    /\ table' = increment_counter(table, id, now).store
    /\ hist' = Incremented(id)
    /\ UNCHANGED <<next_id, now, sess, overlap, ui>>

DecrementCounter(id) ==
    /\ \A r \in table : r.id = id => r.value > 0 - MaxValue
    /\ Tracked(id) => hist.of[id].decs < MaxOps
    /\ table' = decrement_counter(table, id, now).store
    /\ hist' = Decremented(id)
    /\ UNCHANGED <<next_id, now, sess, overlap, ui>>

UpdateCounter(id, data) ==
    /\ table' = update_counter(table, id, data, now).store
    /\ hist' = IF data # Unset THEN Written(id) ELSE hist
    /\ UNCHANGED <<next_id, now, sess, overlap, ui>>

ResetCounter(id) ==
    /\ table' = reset_counter(table, id, now).store
    /\ hist' = Written(id)
    /\ UNCHANGED <<next_id, now, sess, overlap, ui>>

\* one service call, completed before the next one starts
ServiceCall ==
    \/ GetOrCreateDefaultCounter
    \/ \E id \in Ids : GetCounter(id)
    \/ \E name \in Names, value \in InputValues : CreateCounter(name, value)
    \/ \E id \in Ids : IncrementCounter(id)
    \/ \E id \in Ids : DecrementCounter(id)
    \/ \E id \in Ids, data \in UpdateData : UpdateCounter(id, data)
    \/ \E id \in Ids : ResetCounter(id)

Next ==
    \/ Tick
    \/ ServiceCall

Spec == Init /\ [][Next]_vars

(***************************************************************************)
(* The same service calls with the history recorded, made within one       *)
(* reading of the clock (no operation reads a timestamp to compute a       *)
(* value).                                                                 *)
(***************************************************************************)
InitHist ==
    /\ table = {}
    /\ next_id = 1
    /\ now = 0
    /\ hist = [on |-> TRUE, of |-> <<>>]
    /\ sess = [p \in Sessions |-> Idle]
    /\ overlap = {}
    /\ ui = NoPage

NextHist == ServiceCall

SpecHist == InitHist /\ [][NextHist]_vars

(***************************************************************************)
(* Sessions side by side. A counter exists (create_counter has returned);  *)
(* each session then makes one call, increment_counter on some id or       *)
(* get_or_create_default_counter, in two steps that interleave with the    *)
(* steps of the other sessions.                                            *)
(***************************************************************************)
InitRace ==
    /\ \E v \in InputValues :
          LET out == create_counter({}, 1, "a", v, 0)
          IN /\ table = out.store
             /\ next_id = out.next_id
             /\ hist = [on |-> TRUE, of |-> (out.ret.id :> Fresh(v))]
    /\ now = 0
    /\ sess = [p \in Sessions |-> Idle]
    /\ overlap = {}
    /\ ui = NoPage

\* the sessions that hold a loaded counter id and have not committed yet
Loaded(id) ==
    {p \in Sessions : sess[p].pc = "increment_loaded" /\ sess[p].obj.id = id}

\* the sessions whose increment_counter call on counter id has returned
Returned(id) ==
    {p \in Sessions : /\ sess[p].pc = "increment_done"
                      /\ sess[p].obj # None
                      /\ sess[p].obj.id = id}

\* the sessions whose get_or_create_default_counter call found no row named
\* "default" and has returned
Inserted ==
    {p \in Sessions : sess[p].pc = "get_or_create_done" /\ sess[p].obj = None}

IncrementLoad(p, id) ==
    /\ sess[p].pc = "idle"
    /\ LET counter == increment_counter_load(table, id)
       IN sess' = [sess EXCEPT ![p] =
                      IF counter = None
                      THEN [pc |-> "increment_done", obj |-> None, ret |-> None]
                      ELSE [pc |-> "increment_loaded", obj |-> counter,
                            ret |-> None]]
    /\ overlap' = IF Loaded(id) # {} THEN overlap \cup {id} ELSE overlap
    /\ UNCHANGED <<table, next_id, now, hist, ui>>

IncrementWrite(p) ==
    /\ sess[p].pc = "increment_loaded"
    /\ LET out == increment_counter_write(table, sess[p].obj, now)
       IN /\ table' = out.store
          /\ sess' = [sess EXCEPT ![p] = [pc |-> "increment_done",
                                          obj |-> sess[p].obj, ret |-> out.ret]]
    /\ hist' = Incremented(sess[p].obj.id)
    /\ UNCHANGED <<next_id, now, overlap, ui>>

GetOrCreateSelect(p) ==
    /\ sess[p].pc = "idle"
    /\ LET found == get_or_create_default_counter_select(table)
       IN IF found = {}
          THEN sess' = [sess EXCEPT ![p] = [pc |-> "get_or_create_selected",
                                           obj |-> None, ret |-> None]]
          ELSE \E counter \in found :
                  sess' = [sess EXCEPT ![p] = [pc |-> "get_or_create_done",
                                              obj |-> counter, ret |-> counter]]
    /\ UNCHANGED <<table, next_id, now, hist, overlap, ui>>

GetOrCreateInsert(p) ==
    /\ sess[p].pc = "get_or_create_selected"
    /\ LET out == get_or_create_default_counter_insert(table, next_id, now)
       IN /\ table' = out.store
          /\ next_id' = out.next_id
          /\ hist' = Created(out.ret.id, 0)
          /\ sess' = [sess EXCEPT ![p] = [pc |-> "get_or_create_done",
                                          obj |-> None, ret |-> out.ret]]
    /\ UNCHANGED <<now, overlap, ui>>

NextRace ==
    \/ \E p \in Sessions, id \in Ids : IncrementLoad(p, id)
    \/ \E p \in Sessions : IncrementWrite(p)
    \/ \E p \in Sessions : GetOrCreateSelect(p)
    \/ \E p \in Sessions : GetOrCreateInsert(p)

SpecRace == InitRace /\ [][NextRace]_vars

(***************************************************************************)
(* One browser tab on the counter pages, while counters are created beside *)
(* it. The buttons exist while counter_display shows a counter.            *)
(***************************************************************************)
\* GET /counter
OpenCounterPage ==
    /\ select_by_name(table, "default") # {} \/ Cardinality(table) < MaxCounters
    /\ \E out \in get_or_create_default_counter(table, next_id, now) :
          /\ table' = out.store
          /\ next_id' = out.next_id
          /\ ui' = [tab |-> <<out.ret.id>>,
                    display |-> counter_display(out.store, <<out.ret.id>>),
                    notify |-> {}]
    /\ UNCHANGED <<now, hist, sess, overlap>>

\* GET /counter/{counter_id}
OpenSpecificCounterPage(counter_id) ==
    /\ LET counter == get_counter(table, counter_id).ret
       IN IF counter = None
          THEN ui' = [tab |-> ui.tab,
                      display |-> [view |-> "Counter Not Found", text |-> ""],
                      notify |-> {}]
          ELSE ui' = [tab |-> <<counter.id>>,
                      display |-> counter_display(table, <<counter.id>>),
                      notify |-> {}]
    /\ UNCHANGED <<table, next_id, now, hist, sess, overlap>>

Clicked(out) ==
    /\ table' = out.store
    /\ ui' = [tab |-> ui.tab, display |-> out.display, notify |-> out.notify]
    /\ UNCHANGED <<next_id, now, hist, sess, overlap>>

ClickIncrement ==
    /\ ui.display.view = "counter"
    /\ \A r \in table : <<r.id>> = ui.tab => r.value < MaxValue
    /\ Clicked(handle_increment(table, ui.tab, ui.display, now))

ClickDecrement ==
    /\ ui.display.view = "counter"
    /\ \A r \in table : <<r.id>> = ui.tab => r.value > 0 - MaxValue
    /\ Clicked(handle_decrement(table, ui.tab, ui.display, now))

ClickReset ==
    /\ ui.display.view = "counter"
    /\ Clicked(handle_reset(table, ui.tab, ui.display, now))

NextUI ==
    \/ OpenCounterPage
    \/ \E counter_id \in Ids : OpenSpecificCounterPage(counter_id)
    \/ ClickIncrement
    \/ ClickDecrement
    \/ ClickReset
    \/ \E name \in Names, value \in InputValues : CreateCounter(name, value)

SpecUI == Init /\ [][NextUI]_vars

(***************************************************************************)
(* The calls a caller can make in a state, for the properties below: each  *)
(* is read in every reachable state, for every argument.                   *)
(***************************************************************************)
NumDefault(s) == Cardinality(select_by_name(s, "default"))

\* the outcomes of the calls that write counter id when it exists
Writes(s, id, t) ==
    {increment_counter(s, id, t), decrement_counter(s, id, t),
     reset_counter(s, id, t)}
      \cup {update_counter(s, id, <<x>>, t) : x \in Values}

\* the outcomes of all the calls that take an id
ByIdCalls(s, id, t) ==
    Writes(s, id, t) \cup {get_counter(s, id), update_counter(s, id, Unset, t)}

(***************************************************************************)
(* C1. For an id that is not in the table, get_counter, increment_counter, *)
(* decrement_counter, update_counter (with or without a value) and         *)
(* reset_counter return None, and the table is the same after the call: no *)
(* row is created and none changes.                                        *)
(***************************************************************************)
C1_AbsentIdReturnsNone ==
    \A id \in Ids \ RowIds(table) :
        \A out \in ByIdCalls(table, id, now) :
            /\ out.ret = None
            /\ out.store = table

\* a table that holds counters, and an id it does not hold
C1_Witness ==
    /\ Cardinality(table) > 1
    /\ \E id \in Ids \ RowIds(table) :
          update_counter(table, id, <<1>>, now) = [store |-> table, ret |-> None]

(***************************************************************************)
(* C2. A counter created with value v and then only incremented (n times)  *)
(* and decremented (m times), in any order and so also all increments      *)
(* first, holds v + n - m; there is no floor, the result may be negative.  *)
(***************************************************************************)
C2_ValueIsInitPlusIncsMinusDecs ==
    \A r \in table :
        Tracked(r.id) =>
            r.value = hist.of[r.id].init + hist.of[r.id].incs - hist.of[r.id].decs

\* a counter incremented once and decremented twice ends below zero
C2_Witness ==
    \E r \in table :
        /\ Tracked(r.id)
        /\ hist.of[r.id].incs = 1
        /\ hist.of[r.id].decs = 2
        /\ r.value < 0

(***************************************************************************)
(* C3. On a table with no row named "default", a first call of             *)
(* get_or_create_default_counter inserts the row ("default", 0) and        *)
(* returns it; a second and a third call after it (at the same or a later  *)
(* reading of the clock) insert nothing and return a row with the same id  *)
(* and the name "default", and exactly one row named "default" exists      *)
(* afterwards.                                                             *)
(***************************************************************************)
C3_DefaultCreatedOnce ==
    NumDefault(table) = 0 =>
        \A o1 \in get_or_create_default_counter(table, next_id, now) :
            /\ o1.ret \notin table
            /\ o1.ret.id \notin RowIds(table)
            /\ o1.ret.name = "default"
            /\ o1.ret.value = 0
            /\ o1.store = table \cup {o1.ret}
            /\ \A t2 \in now..MaxTime :
                 \A o2 \in get_or_create_default_counter(o1.store, o1.next_id, t2) :
                    /\ o2.store = o1.store
                    /\ o2.ret.id = o1.ret.id
                    /\ o2.ret.name = "default"
                    /\ NumDefault(o2.store) = 1
                    /\ \A o3 \in get_or_create_default_counter(o2.store, o2.next_id, t2) :
                          /\ o3.store = o1.store
                          /\ o3.ret.id = o1.ret.id
                          /\ o3.ret.name = "default"
                          /\ NumDefault(o3.store) = 1

\* a table that holds a counter of another name and no default counter yet
C3_Witness ==
    /\ table # {}
    /\ NumDefault(table) = 0
    /\ now > 0
    /\ \A o1 \in get_or_create_default_counter(table, next_id, now) :
          o1.ret.created_at = now /\ o1.ret.id = next_id

(***************************************************************************)
(* C4 as stated: in every state reachable by service calls, at most one    *)
(* row is named "default".                                                 *)
(***************************************************************************)
C4_AtMostOneDefault == NumDefault(table) <= 1

(***************************************************************************)
(* C4 as amended. No call other than create_counter with the name          *)
(* "default" adds a second row named "default": if at most one exists      *)
(* before get_or_create_default_counter, a call that takes an id, or       *)
(* create_counter with another name, at most one exists after it, and in   *)
(* no case does such a call raise their number above one. create_counter   *)
(* checks no name, so it is the only call that can add a duplicate.        *)
(***************************************************************************)
C4_OnlyCreateAddsSecondDefault ==
    LET Kept(s) == NumDefault(s) <= 1 \/ NumDefault(s) <= NumDefault(table)
    IN /\ \A out \in get_or_create_default_counter(table, next_id, now) :
             Kept(out.store)
       /\ \A id \in Ids : \A out \in ByIdCalls(table, id, now) : Kept(out.store)
       /\ \A name \in Names \ {"default"}, value \in InputValues :
             Kept(create_counter(table, next_id, name, value, now).store)

\* one default counter beside a counter of another name
C4_Witness ==
    /\ NumDefault(table) = 1
    /\ \E r \in table : r.name # "default"
    /\ \A out \in get_or_create_default_counter(table, next_id, now) :
          out.store = table

(***************************************************************************)
(* C5. update_counter(id, X) on an existing id, for X positive, zero or    *)
(* negative, returns the row with value X, and X is the stored value       *)
(* afterwards, whatever it was before.                                     *)
(***************************************************************************)
C5_UpdateSetsValue ==
    \A id \in RowIds(table), x \in Values :
        LET out == update_counter(table, id, <<x>>, now)
        IN /\ out.ret # None
           /\ out.ret.id = id
           /\ out.ret.value = x
           /\ session_get(out.store, id).value = x

\* a positive counter that an update sets to a negative value
C5_Witness ==
    \E r \in table :
        /\ r.value > 0
        /\ update_counter(table, r.id, <<-1>>, now).ret.value = -1

(***************************************************************************)
(* C6. update_counter with the unset value on an existing id returns the   *)
(* row, not None, as it was before the call, and writes nothing: value and *)
(* updated_at of the row, and the whole table, stay as they were.          *)
(***************************************************************************)
C6_UnsetUpdateWritesNothing ==
    \A id \in RowIds(table) :
        LET out == update_counter(table, id, Unset, now)
        IN /\ out.ret # None
           /\ out.ret = session_get(table, id)
           /\ out.store = table

\* the row keeps an updated_at older than the reading of the clock
C6_Witness ==
    \E r \in table :
        /\ r.updated_at < now
        /\ update_counter(table, r.id, Unset, now) = [store |-> table, ret |-> r]

(***************************************************************************)
(* C7. reset_counter(id) does what update_counter(id, 0) does: the same    *)
(* return and the same table after the call, for every id (None for a      *)
(* missing one); for an existing id the stored value is 0 afterwards,      *)
(* whatever it was before.                                                 *)
(***************************************************************************)
C7_ResetIsUpdateToZero ==
    \A id \in Ids :
        LET out == reset_counter(table, id, now)
        IN /\ out = update_counter(table, id, <<0>>, now)
           /\ id \notin RowIds(table) => out.ret = None /\ out.store = table
           /\ id \in RowIds(table)
                => /\ out.ret # None
                   /\ out.ret.value = 0
                   /\ session_get(out.store, id).value = 0

\* a negative counter and a positive one, both reset to 0
C7_Witness ==
    \E r1, r2 \in table :
        /\ r1.value < 0
        /\ r2.value > 0
        /\ reset_counter(table, r1.id, now).ret.value = 0
        /\ reset_counter(table, r2.id, now).ret.value = 0

C9_ReturnedValueIsStored ==
    LET Stored(out) ==
            out.ret # None =>
                /\ get_counter(out.store, out.ret.id).ret # None
                /\ get_counter(out.store, out.ret.id).ret.value = out.ret.value
    IN /\ \A id \in Ids : \A out \in ByIdCalls(table, id, now) : Stored(out)
       /\ \A name \in Names, value \in InputValues :
             Stored(create_counter(table, next_id, name, value, now))

\* a written counter whose negative value get_counter reads back
C9_Witness ==
    \E r \in table :
        /\ r.value < 0
        /\ r.updated_at > r.created_at
        /\ get_counter(table, r.id).ret = r
        /\ get_counter(decrement_counter(table, r.id, now).store, r.id).ret.value
             = r.value - 1

(***************************************************************************)
(* C10. A call on one counter touches that row only: increment_counter,    *)
(* decrement_counter, update_counter and reset_counter on id leave every   *)
(* row with another id as it was (name, value, created_at, updated_at),    *)
(* and create_counter adds its row and leaves every existing row as it     *)
(* was.                                                                    *)
(***************************************************************************)
C10_OtherRowsUnchanged ==
    /\ \A id \in Ids : \A out \in ByIdCalls(table, id, now) :
          {r \in out.store : r.id # id} = {r \in table : r.id # id}
    /\ \A name \in Names, value \in InputValues :
          LET out == create_counter(table, next_id, name, value, now)
          IN /\ table \subseteq out.store
             /\ out.store \ table = {out.ret}

\* one counter written after the clock advanced, another left as created
C10_Witness ==
    \E r1, r2 \in table :
        /\ r1.id # r2.id
        /\ r1.updated_at > r1.created_at
        /\ r2.updated_at = r2.created_at
        /\ r2.updated_at < r1.updated_at

(***************************************************************************)
(* C11. The reads change nothing: get_counter, for an id in the table or   *)
(* not, and get_or_create_default_counter when a row named "default"       *)
(* exists, leave the table as it was, row for row. get_counter returns the *)
(* stored row; get_or_create_default_counter returns a stored row named    *)
(* "default" with the value and the updated_at it has in the table (the    *)
(* value is not set back to 0), and takes no id from the store.            *)
(***************************************************************************)
C11_ReadsChangeNothing ==
    /\ \A id \in Ids :
          /\ get_counter(table, id).store = table
          /\ get_counter(table, id).ret = session_get(table, id)
    /\ NumDefault(table) > 0 =>
          \A out \in get_or_create_default_counter(table, next_id, now) :
              /\ out.store = table
              /\ out.next_id = next_id
              /\ out.ret \in select_by_name(table, "default")

\* a default counter away from 0, last written before the clock advanced
C11_Witness ==
    \E r \in table :
        /\ r.name = "default"
        /\ r.value # 0
        /\ r.updated_at < now
        /\ [store |-> table, ret |-> r, next_id |-> next_id]
              \in get_or_create_default_counter(table, next_id, now)
        /\ get_counter(table, r.id) = [store |-> table, ret |-> r]

(***************************************************************************)
(* C12. A lost update is possible. increment_counter reads the row in one  *)
(* step and writes the value it read plus one in a later step, with no     *)
(* lock between: when two calls have read the same stored value v of a     *)
(* counter, both return a row, each with v + 1, and when they are the only *)
(* calls that have written the counter its stored value is v + 1, not      *)
(* v + 2.                                                                  *)
(***************************************************************************)
C12_SameReadWritesSameValue ==
    \A p, q \in Sessions :
        \A id \in RowIds(table) :
            (/\ p # q
             /\ p \in Returned(id)
             /\ q \in Returned(id)
             /\ sess[p].obj.value = sess[q].obj.value)
            => /\ sess[p].ret # None
               /\ sess[q].ret # None
               /\ sess[p].ret.value = sess[p].obj.value + 1
               /\ sess[q].ret.value = sess[p].obj.value + 1
               /\ Cardinality(Returned(id)) = 2
                     => session_get(table, id).value = sess[p].obj.value + 1

\* two calls have returned a row, and the counter has gone up by one only
C12_Witness ==
    \E p, q \in Sessions :
        \E r \in table :
            /\ p # q
            /\ Returned(r.id) = {p, q}
            /\ sess[p].ret # None
            /\ sess[q].ret # None
            /\ r.value = hist.of[r.id].init + 1

(***************************************************************************)
(* C13. The check and the insert of get_or_create_default_counter are two  *)
(* steps: when two calls have both found no row named "default", both      *)
(* insert one, and they leave two rows named "default" with different ids, *)
(* each call returning the row it inserted.                                *)
(***************************************************************************)
C13_BothCallsInsertDefault ==
    \A p, q \in Inserted :
        p # q =>
            /\ sess[p].ret # None
            /\ sess[q].ret # None
            /\ sess[p].ret.id # sess[q].ret.id
            /\ \A x \in {p, q} :
                  /\ sess[x].ret.name = "default"
                  /\ sess[x].ret.value = 0
                  /\ sess[x].ret.id \in RowIds(select_by_name(table, "default"))
            /\ NumDefault(table) >= 2

\* two calls have returned, and exactly two rows are named "default"
C13_Witness ==
    /\ Cardinality(Inserted) = 2
    /\ NumDefault(table) = 2
    /\ \A p \in Sessions : sess[p].pc \in {"idle", "get_or_create_done"}

(***************************************************************************)
(* C14. In every reachable state every row has updated_at >= created_at,   *)
(* and no service call changes the created_at of a row that exists: after  *)
(* get_or_create_default_counter, create_counter and every call that takes *)
(* an id, each row of the table still has the created_at it had.           *)
(***************************************************************************)
C14_CreatedAtKeptAndNotAfterUpdatedAt ==
    LET Kept(s) ==
            \A r \in table :
                /\ session_get(s, r.id) # None
                /\ session_get(s, r.id).created_at = r.created_at
    IN /\ \A r \in table : r.updated_at >= r.created_at
       /\ \A out \in get_or_create_default_counter(table, next_id, now) :
             Kept(out.store)
       /\ \A name \in Names, value \in InputValues :
             Kept(create_counter(table, next_id, name, value, now).store)
       /\ \A id \in Ids : \A out \in ByIdCalls(table, id, now) : Kept(out.store)

\* an older counter written since, beside a younger one left as created
C14_Witness ==
    \E r1, r2 \in table :
        /\ r1.created_at < r2.created_at
        /\ r1.updated_at > r1.created_at
        /\ r2.updated_at = r2.created_at

(***************************************************************************)
(* C15. Ids are stable and unique. No two rows of the table share an id,   *)
(* and every id is one the store has given out (1 and up, below the next   *)
(* one). create_counter and get_or_create_default_counter return a row     *)
(* with an id; when they insert, the id is none the table holds (rows are  *)
(* never deleted, so none ever persisted). No call changes an id: after a  *)
(* call that takes an id the table holds the same ids, each still with the *)
(* name and created_at it had, and a returned row has the id asked for.    *)
(***************************************************************************)
C15_IdsStableAndUnique ==
    LET Identity(s) ==
            {[id |-> r.id, name |-> r.name, created_at |-> r.created_at] : r \in s}
        Unique(s) == \A r1, r2 \in s : r1.id = r2.id => r1 = r2
    IN /\ Unique(table)
       /\ \A r \in table : r.id \in 1..(next_id - 1)
       /\ \A name \in Names, value \in InputValues :
             LET out == create_counter(table, next_id, name, value, now)
             IN /\ out.ret # None
                /\ out.ret.id \in Nat \ {0}
                /\ out.ret.id \notin RowIds(table)
                /\ out.next_id > out.ret.id
                /\ Unique(out.store)
                /\ Identity(table) \subseteq Identity(out.store)
       /\ \A out \in get_or_create_default_counter(table, next_id, now) :
             /\ out.ret # None
             /\ out.ret.id \in Nat \ {0}
             /\ NumDefault(table) = 0 => out.ret.id \notin RowIds(table)
             /\ out.next_id > out.ret.id
             /\ Unique(out.store)
             /\ Identity(table) \subseteq Identity(out.store)
       /\ \A id \in Ids : \A out \in ByIdCalls(table, id, now) :
             /\ Identity(out.store) = Identity(table)
             /\ Unique(out.store)
             /\ out.ret # None => out.ret.id = id

\* two counters alike in name, value and timestamps, apart by their ids only
C15_Witness ==
    \E r1, r2 \in table :
        /\ r1.id # r2.id
        /\ [r1 EXCEPT !.id = r2.id] = r2
        /\ next_id > r1.id /\ next_id > r2.id

(***************************************************************************)
(* C16. A click on +, - or Reset with a counter id in tab storage, for an  *)
(* id the table holds or not. When the service call returns a row, the     *)
(* handler refreshes counter_display and shows its success notification    *)
(* and no other, and the value label then shows the stored value of that   *)
(* counter as text. When the service call returns None, the handler shows  *)
(* its failure notification and no other, does not refresh                 *)
(* counter_display, and leaves what is rendered and the table as they      *)
(* were. On the page, after a click, the label shows the stored value.     *)
(***************************************************************************)
C16_ClickRefreshesOrReportsFailure ==
    LET Click(id, out, svc, done, kind, failed) ==
            /\ out.store = svc.store
            /\ svc.ret # None
                  => /\ out.refreshed
                     /\ out.notify = {[text |-> done, type |-> kind]}
                     /\ out.display.view = "counter"
                     /\ out.display.text
                          = ToString(session_get(out.store, id).value)
            /\ svc.ret = None
                  => /\ ~out.refreshed
                     /\ out.notify = {[text |-> failed, type |-> "negative"]}
                     /\ out.display = ui.display
                     /\ out.store = table
    IN /\ \A id \in Ids :
             /\ Click(id, handle_increment(table, <<id>>, ui.display, now),
                      increment_counter(table, id, now),
                      "Counter incremented!", "positive",
                      "Failed to increment counter")
             /\ Click(id, handle_decrement(table, <<id>>, ui.display, now),
                      decrement_counter(table, id, now),
                      "Counter decremented!", "positive",
                      "Failed to decrement counter")
             /\ Click(id, handle_reset(table, <<id>>, ui.display, now),
                      reset_counter(table, id, now),
                      "Counter reset to 0!", "info", "Failed to reset counter")
       /\ ui.notify # {}
             => /\ ui.display.view = "counter"
                /\ \A n \in ui.notify : n.type # "negative"
                /\ ui.display.text = ToString(session_get(table, ui.tab[1]).value)

\* the page after a click that took the counter below zero, and an id the
\* table does not hold, for which a click would report the failure
C16_Witness ==
    /\ ui.notify = {[text |-> "Counter decremented!", type |-> "positive"]}
    /\ ui.display = [view |-> "counter", text |-> "-1"]
    /\ session_get(table, ui.tab[1]).value = -1
    /\ \E id \in Ids \ RowIds(table) :
          handle_reset(table, <<id>>, ui.display, now)
            = [store |-> table, display |-> ui.display,
               notify |-> {[text |-> "Failed to reset counter",
                            type |-> "negative"]},
               refreshed |-> FALSE]

(***************************************************************************)
(* C17. Rows are never deleted and are created by create_counter and       *)
(* get_or_create_default_counter only, also when the steps of the calls    *)
(* interleave. Every id the store has given out is still in the table, and *)
(* so is the row of every object a session loaded or returned; the table   *)
(* holds one row for the create_counter call and one for each              *)
(* get_or_create_default_counter call that found no row named "default".   *)
(* In every state, a create_counter call adds exactly one row, a           *)
(* get_or_create_default_counter call adds exactly one when no row is      *)
(* named "default" and none otherwise, and get_counter, increment_counter, *)
(* decrement_counter, update_counter and reset_counter leave the ids of    *)
(* the table as they are, for every id.                                    *)
(***************************************************************************)
C17_RowsOnlyAddedByCreation ==
    /\ RowIds(table) = 1..(next_id - 1)
    /\ Cardinality(table) = 1 + Cardinality(Inserted)
    /\ \A p \in Sessions :
          /\ sess[p].obj # None => sess[p].obj.id \in RowIds(table)
          /\ sess[p].ret # None => sess[p].ret.id \in RowIds(table)
    /\ \A id \in Ids : \A out \in ByIdCalls(table, id, now) :
          /\ RowIds(out.store) = RowIds(table)
          /\ Cardinality(out.store) = Cardinality(table)
    /\ \A name \in Names, value \in InputValues :
          LET out == create_counter(table, next_id, name, value, now)
          IN /\ RowIds(out.store) = RowIds(table) \cup {out.ret.id}
             /\ Cardinality(out.store) = Cardinality(table) + 1
    /\ \A out \in get_or_create_default_counter(table, next_id, now) :
          /\ RowIds(table) \subseteq RowIds(out.store)
          /\ Cardinality(out.store)
               = Cardinality(table) + (IF NumDefault(table) = 0 THEN 1 ELSE 0)

\* every session has returned: two rows were inserted beside the first, one
\* counter was incremented, and all three rows are there
C17_Witness ==
    /\ \A p \in Sessions : sess[p].pc \in {"increment_done", "get_or_create_done"}
    /\ Cardinality(Inserted) = 2
    /\ Cardinality(table) = 3
    /\ \E r \in table : r.value # hist.of[r.id].init

(***************************************************************************)
(* C18. When k >= 1 increment_counter calls on one existing counter of     *)
(* value v have returned, interleaved in any way, and nothing else has     *)
(* written the counter: every call has returned a row, and the stored      *)
(* value is at least v + 1 and at most v + k; it is exactly v + k when no  *)
(* call started between the read and the write of another.                 *)
(***************************************************************************)
C18_ValueBetweenOneAndAllIncrements ==
    \A r \in table :
        LET v == hist.of[r.id].init
            k == Cardinality(Returned(r.id))
        IN /\ \A p \in Returned(r.id) :
                 /\ sess[p].ret # None
                 /\ sess[p].ret.id = r.id
           /\ hist.of[r.id].incs = k
           /\ k >= 1 => r.value >= v + 1 /\ r.value <= v + k
           /\ r.id \notin overlap => r.value = v + k

\* three calls have returned and the counter has gone up by two
C18_Witness ==
    \E r \in table :
        /\ Cardinality(Returned(r.id)) = 3
        /\ Loaded(r.id) = {}
        /\ r.value = hist.of[r.id].init + 2

====
